---- MODULE Spec2Model ----
(***************************************************************************)
(* GreenLane: telemetry ingestion gateway (services/ingestion/main.go),    *)
(* the event bus it publishes to, the enrichment worker that consumes the  *)
(* bus, the pricing oracle and the live viewer (cli/main.go).              *)
(*   Spec          the gateway with the index store, the bus, one consumer *)
(*   SpecWorker    the enrichment worker over a bus log                    *)
(*   SpecViewer    the live viewer over a bus log                          *)
(*   SpecViewerLive  the same with weak fairness of the viewer's loop      *)
(*   SpecOracle    the pricing oracle over the hours of the day            *)
(*   SpecEmit      the gateway's publishing path for any agent id          *)
(*   SpecPipeline  gateway and worker together, every downstream call      *)
(*                 succeeding                                              *)
(*   SpecThread    the same for valid frames, with weak fairness of the    *)
(*                 handler and worker steps                                *)
(***************************************************************************)
EXTENDS Integers, Sequences, FiniteSets, TLC

(***************************************************************************)
(* Bounds of the model.                                                    *)
(***************************************************************************)
NumSessions == 2
MaxFrames == 2
NumPartitions == 2

Sessions == 1..NumSessions
Partitions == 1..NumPartitions

(***************************************************************************)
(* Program constants.                                                      *)
(***************************************************************************)
apiTokenValue == "greenlane-secret-token"
kafkaTopic == "fleet-events"

Cars == {"CAR-001", "CAR-002"}

\* an agent id with a double quote in it (CarId is any protobuf string)
QuotedCar == "CAR\"3"

\* the agent ids the index store may hold a key for
AgentIds == Cars \cup {QuotedCar}
NoFrame == [carId |-> "none"]

(***************************************************************************)
(* Telemetry frames (pb.CarStatus).  Latitude and longitude are in units   *)
(* of 1e-7 degree, battery and velocity in units of 1e-3.  The timestamp   *)
(* (milliseconds since the epoch in the program) is kept in seconds: the   *)
(* frames used fall on whole seconds and the program only copies it.       *)
(***************************************************************************)
BaseFrame(car) ==
    [carId |-> car, lat |-> 407234000, lon |-> -739876000,
     battery |-> 85300, velocity |-> 45200, timestamp |-> 1701532800]

FrameInputs ==
    {BaseFrame(c) : c \in Cars}
    \cup {[BaseFrame("CAR-001") EXCEPT !.lat = 910000000, !.timestamp = 1701532802],
          [BaseFrame("CAR-001") EXCEPT !.lon = -1810000004, !.timestamp = 1701532804]}

LatInRange(f) == f.lat >= -900000000 /\ f.lat <= 900000000
LonInRange(f) == f.lon >= -1800000000 /\ f.lon <= 1800000000
InBounds(f) == LatInRange(f) /\ LonInRange(f)

(***************************************************************************)
(* Session metadata as the interceptor sees it: whether the incoming       *)
(* context carries metadata at all, and the values of x-api-token.         *)
(***************************************************************************)
MetadataInputs ==
    {[hasMd |-> FALSE, tokens |-> <<>>],
     [hasMd |-> TRUE, tokens |-> <<>>],
     [hasMd |-> TRUE, tokens |-> <<"wrong-token">>],
     [hasMd |-> TRUE, tokens |-> <<apiTokenValue>>],
     [hasMd |-> TRUE, tokens |-> <<"wrong-token", apiTokenValue>>]}

NoMetadata == [hasMd |-> FALSE, tokens |-> <<>>]

\* validateToken without the comparison with the secret
validateToken_AnyToken(md) ==
    IF ~md.hasMd THEN "Unauthenticated"
    ELSE IF Len(md.tokens) = 0 THEN "Unauthenticated"
    ELSE "OK"

\* validateToken comparing the last x-api-token value with the secret
validateToken_LastToken(md) ==
    IF ~md.hasMd THEN "Unauthenticated"
    ELSE IF Len(md.tokens) = 0 THEN "Unauthenticated"
    ELSE IF md.tokens[Len(md.tokens)] # apiTokenValue THEN "Unauthenticated"
    ELSE "OK"

\* validateToken: nil (here "OK") or status.Error(codes.Unauthenticated, ...)
validateToken(md) ==
    IF ~md.hasMd THEN "Unauthenticated"
    ELSE IF Len(md.tokens) = 0 THEN "Unauthenticated"
    ELSE IF md.tokens[1] # apiTokenValue THEN "Unauthenticated"
    ELSE "OK"

VARIABLES
    mainPc,     \* main(): "serving", "gracefulStop", "closeRedis", "closeKafka", "exited"
    redisOpen,  \* the redis client handle is open
    kafkaOpen,  \* the kafka writer handle is open
    spc,        \* per session: "idle","auth","recv","geoadd","hset","emit","send","closed"
    smd,        \* per session: the metadata of the connection
    scur,       \* per session: the frame being processed (NoFrame before the first)
    sres,       \* per session: outcome of the current frame's steps
    scnt,       \* per session: counters of receives, upserts, publishes, acks
    serr,       \* per session: the error the session ended with ("none" while open)
    geo,        \* index store: fleet:locations, car -> location or NoEntry
    hash,       \* index store: car:{id} hash, car -> metadata or NoEntry
    lbBytes,    \* LeastBytes balancer: bytes routed to each partition
    plog,       \* event bus: the log of each partition
    coff,       \* bus consumer: next offset to read in each partition
    wpc,        \* worker, per partition: "idle", "oracle", "insert", "commit"
    wpos,       \* worker, per partition: offset of the next event to pull
    wcommitted, \* worker, per partition: committed consumer offset
    wquote,     \* worker, per partition: the oracle's answer for the event in hand
    wstatus,    \* worker, per partition: what each delivered offset last ended as
    wredeliv,   \* number of redeliveries so far
    nextSid,    \* the next session identifier not yet held by a stored record
    usage,      \* time-series store: the usage records, in insertion order
    wstop,      \* worker: it has been told to shut down
    vpc,        \* live viewer: "select", "read", "parse", "display", "exited"
    vcancel,    \* live viewer: the context of its loop is cancelled
    vcount,     \* live viewer: eventCount
    vmsg,       \* live viewer: the message in hand (NoMessage outside parse/display)
    vstats,     \* live viewer: whether printStats ran, and the total it printed
    vshown,     \* live viewer: the line displayEvent printed last (NoDisplay before)
    ohour,      \* pricing oracle: the hour of its wall clock, time.Now().Hour()
    oresp       \* pricing oracle: the response it sent last (NoResponse before)

gatewayVars == <<mainPc, redisOpen, kafkaOpen, spc, smd, scur, sres, scnt, serr,
                 geo, hash, lbBytes, plog, coff>>

workerVars == <<wpc, wpos, wcommitted, wquote, wstatus, wredeliv, nextSid, usage, wstop>>

viewerVars == <<vpc, vcancel, vcount, vmsg, vstats, vshown>>

oracleVars == <<ohour, oresp>>

vars == <<gatewayVars, workerVars, viewerVars, oracleVars>>

(***************************************************************************)
(* Formatting of the bus message (fmt.Sprintf with %.6f, %.2f, %d).        *)
(***************************************************************************)
\* x/d rounded to the nearest integer, ties to even (strconv's rounding)
RoundDiv(x, d) ==
    LET q == x \div d
        r == x % d
    IN  IF 2 * r < d THEN q
        ELSE IF 2 * r > d THEN q + 1
        ELSE IF q % 2 = 0 THEN q ELSE q + 1

RECURSIVE DecDigits(_)
DecDigits(n) == IF n < 10 THEN 1 ELSE 1 + DecDigits(n \div 10)

Abs(x) == IF x < 0 THEN -x ELSE x

\* length of the %d rendering of n
IntLen(n) == (IF n < 0 THEN 1 ELSE 0) + DecDigits(Abs(n))

\* length of the %.<places>f rendering of v, v in units of 10^-places
FixedLen(v, unit, places) ==
    (IF v < 0 THEN 1 ELSE 0) + DecDigits(Abs(v) \div unit) + 1 + places

CarIdLen(c) == IF c \in Cars THEN 7 ELSE IF c = QuotedCar THEN 5 ELSE 0

\* the text between the quotes of "car_id":"%s" is a JSON string with the
\* value id: %s copies the id as it is, so this needs an id free of double
\* quotes, backslashes and control characters
JsonSafe(id) == id \in Cars

\* the JSON value of emitToKafka: lat, lon in 1e-6 degree, battery, velocity in 1e-2;
\* car_id is the text %s puts between the quotes
TelemetryEvent(f) ==
    [car_id |-> f.carId,
     lat |-> RoundDiv(f.lat, 10),
     lon |-> RoundDiv(f.lon, 10),
     battery |-> RoundDiv(f.battery, 10),
     velocity |-> RoundDiv(f.velocity, 10),
     timestamp |-> f.timestamp,
     event_type |-> "telemetry"]

\* kafka.Message{Key, Value}; sess and seq record which receive produced it
KafkaMessage(f, s, k) ==
    [key |-> f.carId, value |-> TelemetryEvent(f), sess |-> s, seq |-> k]

\* len(msg.Key) + len(msg.Value): 88 characters of JSON punctuation and names,
\* 3 digits for the milliseconds of the timestamp
MsgBytes(f) ==
    LET e == TelemetryEvent(f)
    IN  CarIdLen(f.carId) + 88 + CarIdLen(e.car_id)
        + FixedLen(e.lat, 1000000, 6) + FixedLen(e.lon, 1000000, 6)
        + FixedLen(e.battery, 100, 2) + FixedLen(e.velocity, 100, 2)
        + IntLen(e.timestamp) + 3

\* kafka.LeastBytes: the first partition with the fewest bytes routed to it
LeastBytesBalance(counters, key) ==
    CHOOSE p \in Partitions :
        /\ \A q \in Partitions : counters[p] <= counters[q]
        /\ \A q \in Partitions : q < p => counters[q] > counters[p]

(***************************************************************************)
(* Initial state: main() has connected its handles and serves; no session  *)
(* is connected; the stores and the topic are empty.                       *)
(***************************************************************************)
\* a key the index store does not hold
NoEntry == [absent |-> TRUE]

\* no acknowledgment sent yet for the current frame
NoAck == [sent |-> FALSE]

\* redisLogged: the loop has logged "Redis write failed" for the current frame
NoOutcome == [geo |-> "none", hset |-> "none", pub |-> "none", ack |-> NoAck,
              afterSignal |-> FALSE, redisLogged |-> FALSE]

\* writes and emits count the calls of writeToRedis and of emitToKafka, upserts
\* and pubs those that succeeded
ZeroCount == [recvd |-> 0, upserts |-> 0, pubs |-> 0, acks |-> 0,
              writes |-> 0, emits |-> 0]

GatewayIdle ==
    /\ mainPc = "serving"
    /\ redisOpen = TRUE
    /\ kafkaOpen = TRUE
    /\ spc = [s \in Sessions |-> "idle"]
    /\ smd = [s \in Sessions |-> NoMetadata]
    /\ scur = [s \in Sessions |-> NoFrame]
    /\ sres = [s \in Sessions |-> NoOutcome]
    /\ scnt = [s \in Sessions |-> ZeroCount]
    /\ serr = [s \in Sessions |-> "none"]
    /\ geo = [c \in AgentIds |-> NoEntry]
    /\ hash = [c \in AgentIds |-> NoEntry]
    /\ lbBytes = [p \in Partitions |-> 0]
    /\ coff = [p \in Partitions |-> 0]

GatewayInit ==
    /\ GatewayIdle
    /\ plog = [p \in Partitions |-> <<>>]

storeVars == <<geo, hash>>
busVars == <<lbBytes, plog>>
mainVars == <<mainPc, redisOpen, kafkaOpen>>

(***************************************************************************)
(* Sessions.                                                               *)
(***************************************************************************)
\* a peer opens a stream; server.Serve accepts it while the listener is open.
\* Sessions are numbered in the order they connect.
Connect(s, md) ==
    /\ UNCHANGED <<workerVars, viewerVars, oracleVars>>
    /\ mainPc = "serving"
    /\ spc[s] = "idle"
    /\ \A t \in Sessions : t < s => spc[t] # "idle"
    /\ spc' = [spc EXCEPT ![s] = "auth"]
    /\ smd' = [smd EXCEPT ![s] = md]
    /\ UNCHANGED <<mainVars, scur, sres, scnt, serr, storeVars, busVars, coff>>

\* a handler error that takes the process down (log.Fatalf instead of return err)
SessionEnds_Fatal(s, err) ==
    /\ spc' = [spc EXCEPT ![s] = "closed"]
    /\ serr' = [serr EXCEPT ![s] = err]
    /\ mainPc' = "exited"
    /\ UNCHANGED <<redisOpen, kafkaOpen>>

\* a handler that logs the error and goes on with the stream
SessionEnds_StaysOpen(s, err) ==
    /\ spc' = [spc EXCEPT ![s] = "recv"]
    /\ serr' = [serr EXCEPT ![s] = err]
    /\ UNCHANGED mainVars

\* the handler returns err: the session ends, nothing else is touched
SessionEnds(s, err) ==
    /\ spc' = [spc EXCEPT ![s] = "closed"]
    /\ serr' = [serr EXCEPT ![s] = err]
    /\ UNCHANGED mainVars

\* authStreamInterceptor: validateToken, then handler(srv, ss)
authStreamInterceptor(s) ==
    /\ UNCHANGED <<workerVars, viewerVars, oracleVars>>
    /\ spc[s] = "auth"
    /\ IF validateToken(smd[s]) # "OK"
       THEN SessionEnds(s, validateToken(smd[s]))
       ELSE /\ spc' = [spc EXCEPT ![s] = "recv"]
            /\ UNCHANGED <<mainVars, serr>>
    /\ UNCHANGED <<smd, scur, sres, scnt, storeVars, busVars, coff>>

RECURSIVE SumRecvd(_)
SumRecvd(S) ==
    IF S = {} THEN 0
    ELSE LET s == CHOOSE t \in S : TRUE IN scnt[s].recvd + SumRecvd(S \ {s})

\* frames received so far, over all sessions (bounded by MaxFrames)
FramesReceived == SumRecvd(Sessions)

\* a loop that publishes the frame before anything is written to the index store
AfterRecv_PublishFirst == "emit"

\* where the loop goes with a frame it has received: to writeToRedis
AfterRecv == "geoadd"

\* StreamTelemetry: stream.Recv() returns a frame
Recv(s, f) ==
    /\ UNCHANGED <<workerVars, viewerVars, oracleVars>>
    /\ spc[s] = "recv"
    /\ FramesReceived < MaxFrames
    /\ scur' = [scur EXCEPT ![s] = f]
    /\ sres' = [sres EXCEPT ![s] = [NoOutcome EXCEPT !.afterSignal = (mainPc # "serving")]]
    /\ scnt' = [scnt EXCEPT ![s].recvd = @ + 1]
    /\ spc' = [spc EXCEPT ![s] = AfterRecv]
    /\ UNCHANGED <<mainVars, smd, serr, storeVars, busVars, coff>>

\* StreamTelemetry: stream.Recv() returns an error (io.EOF or a broken stream)
RecvError(s, e) ==
    /\ UNCHANGED <<workerVars, viewerVars, oracleVars>>
    /\ spc[s] = "recv"
    /\ SessionEnds(s, e)
    /\ UNCHANGED <<smd, scur, sres, scnt, storeVars, busVars, coff>>

\* a response built without the CarId of the frame
BookingResponse_NoAgent(f) ==
    [carId |-> "", status |-> "BOOKING_UNKNOWN", message |-> "Telemetry received"]

\* the BookingResponse the handler builds for the current frame
BookingResponse(f) ==
    [carId |-> f.carId, status |-> "BOOKING_UNKNOWN", message |-> "Telemetry received"]

\* a loop that skips the publish when the index-store write failed
AfterRedisError_SkipPublish == "send"

\* a loop that skips the acknowledgment when the publish failed
AfterKafkaError_SkipAck == "recv"

\* a loop that drops the frame, unacknowledged, when the index-store write failed
AfterRedisError_SkipAck == "recv"

\* a writeToRedis that goes on to HSET after a failed GEOADD
AfterRedisError_StillHSet == "hset"

\* where the loop goes after logging "Redis write failed": on to emitToKafka
AfterRedisError == "emit"

\* a loop that publishes again when the publish failed
AfterKafkaError_Retry == "emit"

\* where the loop goes after logging "Kafka emit failed": on to stream.Send
AfterKafkaError == "send"

\* a loop that reads the next frame as soon as the publish has returned
AfterPublish_NextFrame == "recv"

\* where the loop goes after a publish that returned nil: on to stream.Send
AfterPublish == "send"

\* a loop that has the token checked again after every acknowledgment
AfterAck_ChecksToken == "auth"

\* where the loop goes after stream.Send returned nil: back to stream.Recv
AfterAck == "recv"

\* the coordinates GEOADD takes: longitude within 180 degrees, latitude within
\* 85.05112878 degrees; for any other pair the command returns an error
GeoAddAccepts(f) ==
    /\ f.lon >= -1800000000 /\ f.lon <= 1800000000
    /\ f.lat >= -850511287 /\ f.lat <= 850511287

\* writeToRedis, first command: GEOADD fleet:locations lon lat car.
\* On an error writeToRedis returns it (HSET is skipped) and the loop logs it.
GeoAdd(s, ok) ==
    /\ UNCHANGED <<workerVars, viewerVars, oracleVars>>
    /\ spc[s] = "geoadd"
    /\ ok => (redisOpen /\ GeoAddAccepts(scur[s]))
    /\ IF ok
       THEN /\ geo' = [geo EXCEPT ![scur[s].carId] =
                          [lon |-> scur[s].lon, lat |-> scur[s].lat]]
            /\ sres' = [sres EXCEPT ![s].geo = "ok"]
            /\ scnt' = [scnt EXCEPT ![s].upserts = @ + 1, ![s].writes = @ + 1]
            /\ spc' = [spc EXCEPT ![s] = "hset"]
       ELSE /\ sres' = [sres EXCEPT ![s].geo = "fail", ![s].redisLogged = TRUE]
            /\ scnt' = [scnt EXCEPT ![s].writes = @ + 1]
            /\ spc' = [spc EXCEPT ![s] = AfterRedisError]
            /\ UNCHANGED geo
    /\ UNCHANGED <<mainVars, smd, scur, serr, hash, busVars, coff>>

\* a hash kept under one key for the whole fleet
HashKey_Shared(carId) == "CAR-001"

\* the key of the metadata hash, fmt.Sprintf("car:%s", CarId): one key per agent
\* id (the hash variable is indexed by the id the key is derived from)
HashKey(carId) == carId

\* writeToRedis, second command: HSET car:{id} battery velocity timestamp.
\* Its result is not looked at; writeToRedis returns nil.
HSet(s, ok) ==
    /\ UNCHANGED <<workerVars, viewerVars, oracleVars>>
    /\ spc[s] = "hset"
    /\ ok => redisOpen
    /\ IF ok
       THEN /\ hash' = [hash EXCEPT ![HashKey(scur[s].carId)] =
                           [battery |-> scur[s].battery, velocity |-> scur[s].velocity,
                            timestamp |-> scur[s].timestamp]]
            /\ sres' = [sres EXCEPT ![s].hset = "ok"]
       ELSE /\ sres' = [sres EXCEPT ![s].hset = "fail"]
            /\ UNCHANGED hash
    /\ spc' = [spc EXCEPT ![s] = "emit"]
    /\ UNCHANGED <<mainVars, smd, scur, scnt, serr, geo, busVars, coff>>

\* the partition the writer's balancer (Balancer: &kafka.LeastBytes{}) picks
WriterPartition(f) == LeastBytesBalance(lbBytes, f.carId)

\* emitToKafka: kafkaWriter.WriteMessages.  The balancer picks the partition and
\* counts the bytes; "ok": the message is appended to that partition; "fail":
\* the write returns an error, which the loop logs.
emitToKafka(s, outcome) ==
    /\ UNCHANGED <<workerVars, viewerVars, oracleVars>>
    /\ spc[s] = "emit"
    /\ outcome = "ok" => kafkaOpen
    /\ LET f == scur[s]
           p == WriterPartition(f)
       IN  /\ lbBytes' = IF outcome = "unreachable" THEN lbBytes
                         ELSE [lbBytes EXCEPT ![p] = @ + MsgBytes(f)]
           /\ plog' = IF outcome = "ok"
                      THEN [plog EXCEPT ![p] =
                               Append(@, KafkaMessage(f, s, scnt[s].recvd))]
                      ELSE plog
    /\ sres' = [sres EXCEPT ![s].pub = IF outcome = "ok" THEN "ok" ELSE "fail"]
    /\ scnt' = [scnt EXCEPT ![s].pubs = IF outcome = "ok" THEN @ + 1 ELSE @,
                             ![s].emits = @ + 1]
    /\ spc' = [spc EXCEPT ![s] = IF outcome = "ok" THEN AfterPublish ELSE AfterKafkaError]
    /\ UNCHANGED <<mainVars, smd, scur, serr, storeVars, coff>>

\* stream.Send(response): on success the loop goes back to Recv, on an error
\* the handler returns it
Send(s, ok) ==
    /\ UNCHANGED <<workerVars, viewerVars, oracleVars>>
    /\ spc[s] = "send"
    /\ IF ok
       THEN /\ sres' = [sres EXCEPT ![s].ack = BookingResponse(scur[s])]
            /\ scnt' = [scnt EXCEPT ![s].acks = @ + 1]
            /\ spc' = [spc EXCEPT ![s] = AfterAck]
            /\ UNCHANGED <<mainVars, serr>>
       ELSE /\ SessionEnds(s, "sendError")
            /\ UNCHANGED <<sres, scnt>>
    /\ UNCHANGED <<smd, scur, storeVars, busVars, coff>>

(***************************************************************************)
(* main(): the shutdown path.                                              *)
(***************************************************************************)
\* <-sigChan: SIGINT or SIGTERM arrives; main calls server.GracefulStop()
Signal ==
    /\ UNCHANGED <<workerVars, viewerVars, oracleVars>>
    /\ mainPc = "serving"
    /\ mainPc' = "gracefulStop"
    /\ UNCHANGED <<redisOpen, kafkaOpen, spc, smd, scur, sres, scnt, serr,
                   storeVars, busVars, coff>>

\* a stop that does not wait for the handlers (server.Stop's condition)
HandlersReturned_NoWait(pcs) == TRUE

\* no RPC is pending: every handler that was started has returned
HandlersReturned(pcs) == \A s \in Sessions : pcs[s] \in {"idle", "closed"}

\* server.GracefulStop() returns once every pending RPC has finished
GracefulStopReturns ==
    /\ UNCHANGED <<workerVars, viewerVars, oracleVars>>
    /\ mainPc = "gracefulStop"
    /\ HandlersReturned(spc)
    /\ mainPc' = "closeRedis"
    /\ UNCHANGED <<redisOpen, kafkaOpen, spc, smd, scur, sres, scnt, serr,
                   storeVars, busVars, coff>>

\* redisClient.Close()
CloseRedis ==
    /\ UNCHANGED <<workerVars, viewerVars, oracleVars>>
    /\ mainPc = "closeRedis"
    /\ redisOpen' = FALSE
    /\ mainPc' = "closeKafka"
    /\ UNCHANGED <<kafkaOpen, spc, smd, scur, sres, scnt, serr, storeVars, busVars, coff>>

\* kafkaWriter.Close(), then main returns
CloseKafka ==
    /\ UNCHANGED <<workerVars, viewerVars, oracleVars>>
    /\ mainPc = "closeKafka"
    /\ kafkaOpen' = FALSE
    /\ mainPc' = "exited"
    /\ UNCHANGED <<redisOpen, spc, smd, scur, sres, scnt, serr, storeVars, busVars, coff>>

(***************************************************************************)
(* A consumer of the topic: it reads each partition in offset order and    *)
(* the partitions in any order.                                            *)
(***************************************************************************)
ConsumerRead(p) ==
    /\ UNCHANGED <<workerVars, viewerVars, oracleVars>>
    /\ coff[p] < Len(plog[p])
    /\ coff' = [coff EXCEPT ![p] = @ + 1]
    /\ UNCHANGED <<mainVars, spc, smd, scur, sres, scnt, serr, storeVars, busVars>>

(***************************************************************************)
(* Live viewer (cli/main.go): the consume loop of main() and the goroutine *)
(* that waits for SIGINT/SIGTERM and cancels the loop's context.           *)
(***************************************************************************)
NoMessage == [key |-> "none"]

NoStats == [printed |-> FALSE, events |-> 0]

\* nothing displayed yet
NoDisplay == [eventNum |-> 0]

ViewerInit ==
    /\ vpc = "select"
    /\ vcancel = FALSE
    /\ vcount = 0
    /\ vmsg = NoMessage
    /\ vstats = NoStats
    /\ vshown = NoDisplay

\* printStats(eventCount, startTime): the total it prints
printStats(eventCount) == [printed |-> TRUE, events |-> eventCount]

\* a viewer that prints the statistics on every way out of the loop
AfterCancelledRead_PrintStats(eventCount) == printStats(eventCount)

\* ReadMessage returned an error and ctx.Err() != nil: a bare return
AfterCancelledRead(eventCount) == NoStats

\* a message value that is not JSON
NotJson == [raw |-> "not-json"]

\* json.Unmarshal(message.Value, &event) succeeds on a JSON object
Unmarshals(value) == value # NotJson /\ JsonSafe(value.car_id)

\* the goroutine: <-sigChan, print "Shutting down...", cancel()
ViewerSignal ==
    /\ UNCHANGED <<gatewayVars, workerVars, oracleVars>>
    /\ ~vcancel
    /\ vpc # "exited"
    /\ vcancel' = TRUE
    /\ UNCHANGED <<vpc, vcount, vmsg, vstats, vshown>>

\* top of the loop: select { case <-ctx.Done(): printStats; return; default: }
ViewerSelect ==
    /\ UNCHANGED <<gatewayVars, workerVars, oracleVars>>
    /\ vpc = "select"
    /\ IF vcancel
       THEN /\ vstats' = printStats(vcount)
            /\ vpc' = "exited"
       ELSE /\ vpc' = "read"
            /\ UNCHANGED vstats
    /\ UNCHANGED <<vcancel, vcount, vmsg, vshown>>

\* reader.ReadMessage(ctx) returns the next message of a partition; eventCount++
ViewerReadMessage(p) ==
    /\ UNCHANGED <<workerVars, oracleVars>>
    /\ vpc = "read"
    /\ coff[p] < Len(plog[p])
    /\ coff' = [coff EXCEPT ![p] = @ + 1]
    /\ vmsg' = plog[p][coff[p] + 1]
    /\ vcount' = vcount + 1
    /\ vpc' = "parse"
    /\ UNCHANGED <<mainVars, spc, smd, scur, sres, scnt, serr, storeVars, busVars,
                   vcancel, vstats, vshown>>

\* reader.ReadMessage(ctx) returns an error: the context's, once it is cancelled,
\* or the reader's.  With ctx.Err() != nil the loop returns; else it logs and
\* goes round again.
ViewerReadError ==
    /\ UNCHANGED <<gatewayVars, workerVars, oracleVars>>
    /\ vpc = "read"
    /\ IF vcancel
       THEN /\ vstats' = AfterCancelledRead(vcount)
            /\ vpc' = "exited"
       ELSE /\ vpc' = "select"
            /\ UNCHANGED vstats
    /\ UNCHANGED <<vcancel, vcount, vmsg, vshown>>

\* a viewer that gives up on a message it cannot parse
AfterParseError_Exits == "exited"

\* where the loop goes after logging "Failed to parse event": continue
AfterParseError == "select"

\* json.Unmarshal: on an error the loop logs it and goes round again
ViewerParse ==
    /\ UNCHANGED <<gatewayVars, workerVars, oracleVars>>
    /\ vpc = "parse"
    /\ IF Unmarshals(vmsg.value)
       THEN /\ vpc' = "display"
            /\ UNCHANGED vmsg
       ELSE /\ vpc' = AfterParseError
            /\ vmsg' = NoMessage
    /\ UNCHANGED <<vcancel, vcount, vstats, vshown>>

\* the battery icon of displayEvent; battery in units of 1e-2 percent
BatteryIcon(battery) ==
    IF battery < 2000 THEN "red"
    ELSE IF battery < 5000 THEN "yellow"
    ELSE "green"

\* displayEvent appends " CRITICAL BATTERY!" to the line
CriticalAlert(battery) == battery < 1500

\* the line displayEvent prints for an event
displayEvent(event, eventNum) ==
    [eventNum |-> eventNum, carId |-> event.car_id, battery |-> event.battery,
     icon |-> BatteryIcon(event.battery), critical |-> CriticalAlert(event.battery)]

\* displayEvent(&event, eventCount), then the next turn of the loop
ViewerDisplay ==
    /\ UNCHANGED <<gatewayVars, workerVars, oracleVars>>
    /\ vpc = "display"
    /\ vshown' = displayEvent(vmsg.value, vcount)
    /\ vpc' = "select"
    /\ vmsg' = NoMessage
    /\ UNCHANGED <<vcancel, vcount, vstats>>

(***************************************************************************)
(* Pricing oracle (mock grid service, handlePricing).  Prices are in units *)
(* of 1e-9 dollar until they are rounded to cents.                         *)
(***************************************************************************)
\* sin(k * 15 degrees) in units of 1e-6, k in 0..6
SinTable == <<0, 258819, 500000, 707107, 866025, 965926, 1000000>>

\* math.Sin((hour - 6) * Pi / 12) in units of 1e-6
SinMicro(hour) ==
    LET k == (hour - 6) % 24
    IN  IF k <= 6 THEN SinTable[k + 1]
        ELSE IF k <= 12 THEN SinTable[12 - k + 1]
        ELSE IF k <= 18 THEN -SinTable[k - 12 + 1]
        ELSE -SinTable[24 - k + 1]

\* an oracle whose solar hours end before 18:00
EnergySource_SolarEndsEarly(hour) ==
    IF hour >= 8 /\ hour < 18 THEN "Solar"
    ELSE IF hour >= 18 /\ hour <= 22 THEN "Wind"
    ELSE "Grid"

EnergySource(hour) ==
    IF hour >= 8 /\ hour <= 18 THEN "Solar"
    ELSE IF hour >= 19 /\ hour <= 22 THEN "Wind"
    ELSE "Grid"

\* basePricePerKwh + amplitude * sin(radians)
RawPrice(hour) == 250000000 + 150 * SinMicro(hour)

GridLoad(hour) ==
    IF RawPrice(hour) > 350000000 THEN "High"
    ELSE IF RawPrice(hour) > 250000000 THEN "Medium"
    ELSE "Low"

\* the price after the solar discount (pricePerKwh *= 0.9)
DiscountedPrice(hour) ==
    IF EnergySource(hour) = "Solar" THEN (RawPrice(hour) \div 10) * 9
    ELSE RawPrice(hour)

\* math.Round(pricePerKwh*100) / 100, in cents
PriceCents(hour) == (DiscountedPrice(hour) + 5000000) \div 10000000

handlePricing(hour) ==
    [price_per_kwh |-> PriceCents(hour), grid_load |-> GridLoad(hour),
     energy_source |-> EnergySource(hour), hour |-> hour]

\* the values of now.Hour()
HoursOfDay == 0..23

\* no request answered yet
NoResponse == [hour |-> -1]

OracleInit ==
    /\ ohour = 0
    /\ oresp = NoResponse

\* the wall clock of the oracle passes into the next hour
OracleTick ==
    /\ ohour' = (ohour + 1) % 24
    /\ UNCHANGED <<gatewayVars, workerVars, viewerVars, oresp>>

\* GET /api/pricing: handlePricing answers for the current hour
OracleRequest ==
    /\ oresp' = handlePricing(ohour)
    /\ UNCHANGED <<gatewayVars, workerVars, viewerVars, ohour>>

(***************************************************************************)
(* Enrichment worker: one sequential loop per partition.                   *)
(*   pull event -> oracle call -> usage record -> insert -> commit offset  *)
(***************************************************************************)
MaxLog == 2
MaxRedeliveries == 1

\* the hours of the day at which the oracle is asked in this model
QuoteHours == {3, 12}

Offsets == 1..MaxLog

\* no oracle answer in hand
NoQuote == [answered |-> FALSE]

WorkerInit ==
    /\ wpc = [p \in Partitions |-> "idle"]
    /\ wpos = [p \in Partitions |-> 0]
    /\ wcommitted = [p \in Partitions |-> 0]
    /\ wquote = [p \in Partitions |-> NoQuote]
    /\ wstatus = [p \in Partitions |-> [o \in Offsets |-> "none"]]
    /\ wredeliv = 0
    /\ nextSid = 1
    /\ usage = <<>>
    /\ wstop = FALSE

\* the event the worker of partition p has in hand
InHand(p) == plog[p][wpos[p]].value

\* the usage quantity derived from the event's reported metrics
KwhUsage(e) == (10000 - e.battery) + e.velocity \div 10

\* a consumer that commits the offset as soon as the event is pulled
CommittedAfterPull_AutoCommit(committed, pulled) == pulled

\* the consumer offset right after an event is pulled: pulling commits nothing
CommittedAfterPull(committed, pulled) == committed

\* a loop that pulls the next event while the commit of the last is outstanding
MayPull_Pipelined(pc, stop) == pc \in {"idle", "commit"} /\ ~stop

\* a loop that goes on pulling after it has been told to shut down
MayPull_IgnoresShutdown(pc, stop) == pc = "idle"

\* the loop pulls only at its top, and only until it is told to shut down
MayPull(pc, stop) == pc = "idle" /\ ~stop

\* the worker pulls the next event of its partition
WorkerConsume(p) ==
    /\ MayPull(wpc[p], wstop)
    /\ wpos[p] < Len(plog[p])
    /\ wpos[p] < MaxLog
    /\ wpos' = [wpos EXCEPT ![p] = @ + 1]
    /\ wcommitted' = [wcommitted EXCEPT ![p] = CommittedAfterPull(@, wpos[p] + 1)]
    /\ wstatus' = [wstatus EXCEPT ![p][wpos[p] + 1] = "pulled"]
    /\ wpc' = [wpc EXCEPT ![p] = "oracle"]
    /\ UNCHANGED <<gatewayVars, viewerVars, oracleVars, wstop, wquote, wredeliv, nextSid, usage>>

\* the oracle answers within the timeout
WorkerOracleOk(p, hour) ==
    /\ wpc[p] = "oracle"
    /\ wquote' = [wquote EXCEPT ![p] = handlePricing(hour)]
    /\ wpc' = [wpc EXCEPT ![p] = "insert"]
    /\ UNCHANGED <<gatewayVars, viewerVars, oracleVars, wstop, wpos, wcommitted, wstatus, wredeliv, nextSid, usage>>

\* a worker that persists a record with a zero price when the oracle failed
AfterOracleFailure_DefaultPrice(p) ==
    /\ wstatus' = [wstatus EXCEPT ![p][wpos[p]] = "skipped"]
    /\ wpc' = [wpc EXCEPT ![p] = "idle"]
    /\ usage' = Append(usage, [session_id |-> nextSid, station_id |-> "STATION-001",
                               car_id |-> plog[p][wpos[p]].value.car_id,
                               kwh_usage |-> 0, price_rate |-> 0,
                               time |-> plog[p][wpos[p]].value.timestamp,
                               event |-> plog[p][wpos[p]].value, src |-> <<p, wpos[p]>>])
    /\ nextSid' = nextSid + 1
    /\ UNCHANGED <<wpos, wcommitted, wquote, wredeliv>>

\* what the worker does with an event whose oracle call failed: log and skip
AfterOracleFailure(p) ==
    /\ wstatus' = [wstatus EXCEPT ![p][wpos[p]] = "skipped"]
    /\ wpc' = [wpc EXCEPT ![p] = "idle"]
    /\ UNCHANGED <<wpos, wcommitted, wquote, wredeliv, nextSid, usage>>

\* the oracle call returns an error or exceeds the request timeout
WorkerOracleFail(p, kind) ==
    /\ wpc[p] = "oracle"
    /\ kind \in {"error", "timeout"}
    /\ AfterOracleFailure(p)
    /\ UNCHANGED <<gatewayVars, viewerVars, oracleVars, wstop>>

\* a session identifier derived from the event instead of generated
FreshSessionId_FromEvent(e, n) == e.timestamp

\* the freshly generated session identifier of a usage record
FreshSessionId(e, n) == n

UsageRecord(e, quote, sid, p, o) ==
    [session_id |-> sid, station_id |-> "STATION-001", car_id |-> e.car_id,
     kwh_usage |-> KwhUsage(e), price_rate |-> quote.price_per_kwh,
     time |-> e.timestamp, event |-> e, src |-> <<p, o>>]

\* an insert that overwrites the row the store holds for the same agent
InsertRow_Upsert(rows, r) ==
    IF \E i \in 1..Len(rows) : rows[i].car_id = r.car_id
    THEN [i \in 1..Len(rows) |-> IF rows[i].car_id = r.car_id THEN r ELSE rows[i]]
    ELSE Append(rows, r)

\* the time-series store after an insert of r
InsertRow(rows, r) == Append(rows, r)

\* a worker that tries the insert again after a failure
AfterInsertFailure_Retry == "insert"

\* where the loop goes after logging a failed insert: on to the offset commit
AfterInsertFailure == "commit"

\* the insert attempt: on success the row is appended, on failure it is logged
WorkerInsert(p, ok) ==
    /\ wpc[p] = "insert"
    /\ LET r == UsageRecord(InHand(p), wquote[p], FreshSessionId(InHand(p), nextSid),
                            p, wpos[p])
       IN  usage' = IF ok THEN InsertRow(usage, r) ELSE usage
    /\ nextSid' = IF ok THEN nextSid + 1 ELSE nextSid
    /\ wstatus' = [wstatus EXCEPT ![p][wpos[p]] = IF ok THEN "inserted" ELSE "insertFailed"]
    /\ wpc' = [wpc EXCEPT ![p] = IF ok THEN "commit" ELSE AfterInsertFailure]
    /\ UNCHANGED <<gatewayVars, viewerVars, oracleVars, wstop, wpos, wcommitted, wquote, wredeliv>>

\* the offset of the event is committed after its insert attempt
WorkerCommit(p) ==
    /\ wpc[p] = "commit"
    /\ wcommitted' = [wcommitted EXCEPT ![p] = wpos[p]]
    /\ wquote' = [wquote EXCEPT ![p] = NoQuote]
    /\ wpc' = [wpc EXCEPT ![p] = "idle"]
    /\ UNCHANGED <<gatewayVars, viewerVars, oracleVars, wstop, wpos, wstatus, wredeliv, nextSid, usage>>

\* at-least-once redelivery: the consumer restarts (or the group rebalances)
\* and resumes from the committed offset
WorkerRedeliver(p) ==
    /\ ~wstop
    /\ wredeliv < MaxRedeliveries
    /\ wpos[p] > wcommitted[p]
    /\ wpos' = [wpos EXCEPT ![p] = wcommitted[p]]
    /\ wquote' = [wquote EXCEPT ![p] = NoQuote]
    /\ wpc' = [wpc EXCEPT ![p] = "idle"]
    /\ wredeliv' = wredeliv + 1
    /\ UNCHANGED <<gatewayVars, viewerVars, oracleVars, wstop, wcommitted, wstatus, nextSid, usage>>

\* the worker is told to shut down: the loops stop pulling; an event in hand
\* (its oracle call, insert and commit) is left to finish
WorkerShutdown ==
    /\ ~wstop
    /\ wstop' = TRUE
    /\ UNCHANGED <<gatewayVars, viewerVars, oracleVars, wpc, wpos, wcommitted, wquote, wstatus,
                   wredeliv, nextSid, usage>>

Init == GatewayInit /\ WorkerInit /\ ViewerInit /\ OracleInit

Next ==
    \/ \E s \in Sessions, md \in MetadataInputs : Connect(s, md)
    \/ \E s \in Sessions : authStreamInterceptor(s)
    \/ \E s \in Sessions, f \in FrameInputs : Recv(s, f)
    \/ \E s \in Sessions, e \in {"EOF", "transport"} : RecvError(s, e)
    \/ \E s \in Sessions, ok \in BOOLEAN : GeoAdd(s, ok)
    \/ \E s \in Sessions, ok \in BOOLEAN : HSet(s, ok)
    \/ \E s \in Sessions, o \in {"ok", "fail"} : emitToKafka(s, o)
    \/ \E s \in Sessions, ok \in BOOLEAN : Send(s, ok)
    \/ Signal
    \/ GracefulStopReturns
    \/ CloseRedis
    \/ CloseKafka
    \/ \E p \in Partitions : ConsumerRead(p)

Spec == Init /\ [][Next]_vars

(***************************************************************************)
(* The worker over a bus log: the topic holds up to MaxLog events in all,  *)
(* published by the gateway for these frames.  The worker loops of the     *)
(* partitions are alike, so the partitions are numbered by decreasing log  *)
(* length; the worker does not look at agent names, so the first event is  *)
(* CAR-001's.                                                              *)
(***************************************************************************)
WorkerFrames == {BaseFrame(c) : c \in Cars}

RECURSIVE LogsOfLen(_, _)
LogsOfLen(p, n) ==
    IF n = 0 THEN {<<>>}
    ELSE {Append(l, KafkaMessage(f, 1, n)) : l \in LogsOfLen(p, n - 1), f \in WorkerFrames}

BusLogs == UNION {LogsOfLen(1, n) : n \in 0..MaxLog}

RECURSIVE TotalLen(_, _)
TotalLen(logs, P) ==
    IF P = {} THEN 0
    ELSE LET p == CHOOSE q \in P : TRUE IN Len(logs[p]) + TotalLen(logs, P \ {p})

InitWorker ==
    /\ GatewayIdle
    /\ plog \in {l \in [Partitions -> BusLogs] :
                   /\ TotalLen(l, Partitions) <= MaxLog
                   /\ \A p, q \in Partitions : p < q => Len(l[p]) >= Len(l[q])
                   /\ Len(l[1]) > 0 => l[1][1].key = "CAR-001"}
    /\ WorkerInit
    /\ ViewerInit
    /\ OracleInit

NextWorker ==
    \/ \E p \in Partitions : WorkerConsume(p)
    \/ \E p \in Partitions, h \in QuoteHours : WorkerOracleOk(p, h)
    \/ \E p \in Partitions, k \in {"error", "timeout"} : WorkerOracleFail(p, k)
    \/ \E p \in Partitions, ok \in BOOLEAN : WorkerInsert(p, ok)
    \/ \E p \in Partitions : WorkerCommit(p)
    \/ \E p \in Partitions : WorkerRedeliver(p)
    \/ WorkerShutdown

SpecWorker == InitWorker /\ [][NextWorker]_vars

(***************************************************************************)
(* The live viewer over a bus log: the topic receives up to MaxLog         *)
(* messages while the viewer runs, telemetry events of the gateway or      *)
(* values that are not JSON.                                               *)
(***************************************************************************)
\* a message whose value json.Unmarshal rejects
GarbageMessage(n) == [key |-> "", value |-> NotJson, sess |-> 0, seq |-> n]

\* battery levels around the thresholds of displayEvent, in units of 1e-3 percent
BatteryLevels == {14990, 15000, 19990, 20000, 49990, 50000, 50010}

\* the frames whose events the viewer is shown
ViewerFrames ==
    WorkerFrames \cup {[BaseFrame("CAR-001") EXCEPT !.battery = b] : b \in BatteryLevels}

RECURSIVE ViewerLogsOfLen(_)
ViewerLogsOfLen(n) ==
    IF n = 0 THEN {<<>>}
    ELSE {Append(l, m) : l \in ViewerLogsOfLen(n - 1),
                         m \in {KafkaMessage(f, 1, n) : f \in ViewerFrames}
                               \cup {GarbageMessage(n)}}

ViewerLogs == UNION {ViewerLogsOfLen(n) : n \in 0..MaxLog}

InitViewer ==
    /\ GatewayIdle
    /\ plog \in {l \in [Partitions -> ViewerLogs] : TotalLen(l, Partitions) <= MaxLog}
    /\ WorkerInit
    /\ ViewerInit
    /\ OracleInit

NextViewer ==
    \/ ViewerSignal
    \/ ViewerSelect
    \/ \E p \in Partitions : ViewerReadMessage(p)
    \/ ViewerReadError
    \/ ViewerParse
    \/ ViewerDisplay

SpecViewer == InitViewer /\ [][NextViewer]_vars

\* the loop of main() keeps running: its own steps are taken whenever they can
\* be, and a ReadMessage whose context is cancelled returns (a message that has
\* arrived, or the context's error); with the context alive ReadMessage may
\* block for as long as no message arrives
ViewerFairness ==
    /\ WF_vars(ViewerSelect)
    /\ WF_vars(ViewerParse)
    /\ WF_vars(ViewerDisplay)
    /\ WF_vars(vcancel /\ (ViewerReadError \/ \E p \in Partitions : ViewerReadMessage(p)))

SpecViewerLive == InitViewer /\ [][NextViewer]_vars /\ ViewerFairness

(***************************************************************************)
(* The pricing oracle alone: it is started at any hour of the day, its     *)
(* clock runs, and requests arrive at any time.                            *)
(***************************************************************************)
InitOracle ==
    /\ GatewayInit
    /\ WorkerInit
    /\ ViewerInit
    /\ ohour \in HoursOfDay
    /\ oresp = NoResponse

NextOracle ==
    \/ OracleTick
    \/ OracleRequest

SpecOracle == InitOracle /\ [][NextOracle]_vars

(***************************************************************************)
(* The steel thread: agent -> gateway -> index store and bus -> worker ->   *)
(* oracle -> time-series store, with every downstream call succeeding.     *)
(* The handler goroutines and the worker loops keep running (weak          *)
(* fairness of their steps); nothing is assumed of what the peers do.      *)
(***************************************************************************)
\* CAR-001 a little further north, fully charged and standing still
ParkedFrame ==
    [BaseFrame("CAR-001") EXCEPT !.lat = 407244000, !.battery = 100000,
                                 !.velocity = 0, !.timestamp = 1701532801]

\* CAR-002 with an empty battery
EmptyFrame == [BaseFrame("CAR-002") EXCEPT !.battery = 0]

\* CAR-002 reporting a negative velocity
ReversingFrame ==
    [BaseFrame("CAR-002") EXCEPT !.velocity = -5000, !.timestamp = 1701532803]

ThreadFrames == {BaseFrame("CAR-001"), ParkedFrame, EmptyFrame, ReversingFrame}

\* a frame the specification calls valid: coordinates in range, battery within
\* 0..100, velocity not negative
ValidFrame(f) ==
    /\ InBounds(f)
    /\ f.battery >= 0 /\ f.battery <= 100000
    /\ f.velocity >= 0

ValidThreadFrames == {f \in ThreadFrames : ValidFrame(f)}

ThreadMetadata == {md \in MetadataInputs : validateToken(md) = "OK"}

\* the steps of the stream handlers, each downstream call succeeding
HandlerSteps ==
    \/ \E s \in Sessions : authStreamInterceptor(s)
    \/ \E s \in Sessions : GeoAdd(s, TRUE)
    \/ \E s \in Sessions : HSet(s, TRUE)
    \/ \E s \in Sessions : emitToKafka(s, "ok")
    \/ \E s \in Sessions : Send(s, TRUE)

\* the steps of the worker loops, the oracle answering and the insert succeeding
WorkerSteps ==
    \/ \E p \in Partitions : WorkerConsume(p)
    \/ \E p \in Partitions, h \in QuoteHours : WorkerOracleOk(p, h)
    \/ \E p \in Partitions : WorkerInsert(p, TRUE)
    \/ \E p \in Partitions : WorkerCommit(p)

\* valid frames on sessions that stay open
NextThread ==
    \/ \E s \in Sessions, md \in ThreadMetadata : Connect(s, md)
    \/ \E s \in Sessions, f \in ValidThreadFrames : Recv(s, f)
    \/ HandlerSteps
    \/ WorkerSteps

ThreadFairness ==
    /\ \A s \in Sessions :
           /\ WF_vars(authStreamInterceptor(s))
           /\ WF_vars(GeoAdd(s, TRUE))
           /\ WF_vars(HSet(s, TRUE))
           /\ WF_vars(emitToKafka(s, "ok"))
           /\ WF_vars(Send(s, TRUE))
    /\ \A p \in Partitions :
           /\ WF_vars(WorkerConsume(p))
           /\ WF_vars(\E h \in QuoteHours : WorkerOracleOk(p, h))
           /\ WF_vars(WorkerInsert(p, TRUE))
           /\ WF_vars(WorkerCommit(p))

SpecThread == Init /\ [][NextThread]_vars /\ ThreadFairness

\* the same pipeline for any frame a peer may send, with peers that disconnect
\* and the gateway's shutdown path
NextPipeline ==
    \/ \E s \in Sessions, md \in ThreadMetadata : Connect(s, md)
    \/ \E s \in Sessions, f \in ThreadFrames : Recv(s, f)
    \/ \E s \in Sessions : RecvError(s, "EOF")
    \/ HandlerSteps
    \/ Signal
    \/ GracefulStopReturns
    \/ CloseRedis
    \/ CloseKafka
    \/ WorkerSteps

SpecPipeline == Init /\ [][NextPipeline]_vars

(***************************************************************************)
(* The publishing path of the gateway for any agent id a peer may send:    *)
(* the index-store writes succeed, the publish succeeds or fails.          *)
(***************************************************************************)
\* a frame of the agent whose id has a double quote in it
QuotedFrame == [BaseFrame(QuotedCar) EXCEPT !.timestamp = 1701532805]

EmitFrames == {BaseFrame("CAR-001"), BaseFrame("CAR-002"), QuotedFrame}

NextEmit ==
    \/ \E s \in Sessions, md \in ThreadMetadata : Connect(s, md)
    \/ \E s \in Sessions, f \in EmitFrames : Recv(s, f)
    \/ \E s \in Sessions : RecvError(s, "EOF")
    \/ \E s \in Sessions : authStreamInterceptor(s)
    \/ \E s \in Sessions : GeoAdd(s, TRUE)
    \/ \E s \in Sessions : HSet(s, TRUE)
    \/ \E s \in Sessions, o \in {"ok", "fail"} : emitToKafka(s, o)
    \/ \E s \in Sessions : Send(s, TRUE)
    \/ \E p \in Partitions : ConsumerRead(p)

SpecEmit == Init /\ [][NextEmit]_vars

(***************************************************************************)
(* Properties of the gateway (checked under Spec).                         *)
(***************************************************************************)
\* the credential of a session is missing or is not the shared secret
InvalidCredential(md) == Len(md.tokens) = 0 \/ md.tokens[1] # apiTokenValue

MessagesOf(s) ==
    {<<p, i>> \in Partitions \X (1..MaxFrames) : i <= Len(plog[p]) /\ plog[p][i].sess = s}

\* C1: a session whose metadata has no x-api-token, or whose token is not the
\* shared secret, never enters the stream handler: it reads no frame, causes no
\* upsert, no publish and no acknowledgment, and ends with Unauthenticated.
C1_UnauthenticatedNeverStreams ==
    \A s \in Sessions :
        (spc[s] # "idle" /\ InvalidCredential(smd[s])) =>
            /\ spc[s] \in {"auth", "closed"}
            /\ scur[s] = NoFrame
            /\ scnt[s] = ZeroCount
            /\ MessagesOf(s) = {}
            /\ spc[s] = "closed" => serr[s] = "Unauthenticated"

\* a session with a wrong token has been turned away while another session
\* has had a frame upserted and published
C1_Witness ==
    \E s, t \in Sessions :
        /\ InvalidCredential(smd[s]) /\ Len(smd[s].tokens) > 0
        /\ spc[s] = "closed" /\ serr[s] = "Unauthenticated"
        /\ scnt[t].upserts > 0 /\ scnt[t].pubs > 0

\* the consumer has read the message at index i of partition p
Consumed(p, i) == i <= coff[p]

\* C2: two frames of one agent received in order on one session are observed
\* by a bus consumer in that order, for any number of partitions, given only
\* that each partition preserves publish order.
C2_PerAgentOrderAtConsumer ==
    \A p1, p2 \in Partitions :
        \A i \in 1..Len(plog[p1]), j \in 1..Len(plog[p2]) :
            (/\ plog[p1][i].sess = plog[p2][j].sess
             /\ plog[p1][i].key = plog[p2][j].key
             /\ plog[p1][i].seq < plog[p2][j].seq
             /\ Consumed(p2, j)) => Consumed(p1, i)

\* C3: a frame whose latitude or longitude is out of range causes no upsert
\* and no publish (the session stays open and goes on to the next frame).
C3_OutOfRangeRejected ==
    \A s \in Sessions :
        (scur[s] # NoFrame /\ ~InBounds(scur[s])) =>
            /\ sres[s].geo # "ok"
            /\ sres[s].hset # "ok"
            /\ sres[s].pub # "ok"

\* the frame of session s is being processed: received and not yet acknowledged
Processing(s) == spc[s] \in {"geoadd", "hset", "emit", "send"}

\* C4: every frame received on an authenticated session is acknowledged
\* exactly once, whatever the outcomes of the index-store write and of the
\* publish, as long as the stream send does not fail.
C4_OneAckPerFrame ==
    \A s \in Sessions :
        /\ Processing(s) => scnt[s].acks = scnt[s].recvd - 1 /\ sres[s].ack = NoAck
        /\ (spc[s] = "closed" /\ serr[s] = "sendError") =>
               scnt[s].acks = scnt[s].recvd - 1 /\ sres[s].ack = NoAck
        /\ (spc[s] = "recv" \/ (spc[s] = "closed" /\ serr[s] # "sendError")) =>
               /\ scnt[s].acks = scnt[s].recvd
               /\ scnt[s].recvd > 0 => sres[s].ack = BookingResponse(scur[s])

\* a frame whose index-store write and publish both failed has been acknowledged
C4_Witness ==
    \E s \in Sessions :
        /\ spc[s] = "recv" /\ scnt[s].recvd = 1 /\ scnt[s].acks = 1
        /\ sres[s].geo = "fail" /\ sres[s].pub = "fail"

\* C5: the two downstream writes of a frame are independent: after a failed
\* index-store write the publish is still attempted, a publish (failed or not)
\* leaves the index store as it was, and neither failure closes the session.
C5_Independent ==
    \A s \in Sessions :
        /\ (sres[s].geo = "fail" /\ spc[s] \in {"send", "recv", "closed"}) =>
               sres[s].pub # "none"
        /\ (sres[s].pub = "fail" /\ spc[s] = "closed") => serr[s] \in {"sendError", "EOF", "transport"}

C5_StepsIndependent ==
    \A s \in Sessions :
        /\ (spc[s] = "emit" /\ spc'[s] # "emit") => (geo' = geo /\ hash' = hash)
        /\ spc[s] \in {"geoadd", "hset", "emit"} => spc'[s] # "closed"
        /\ (spc[s] = "geoadd" /\ sres'[s].geo = "fail") => spc'[s] = "emit"
        /\ (spc[s] = "emit" /\ sres'[s].pub = "fail") => spc'[s] = "send"

\* C5: in every state a failed index-store write is followed by a publish
\* attempt, and every step keeps the two writes independent and the session open.
C5_IndependentWrites == []C5_Independent /\ [][C5_StepsIndependent]_vars

\* the publish of a frame failed, its index-store write is still in place and
\* the session has gone on to the next receive
C5_Witness ==
    \E s \in Sessions :
        /\ spc[s] = "recv" /\ sres[s].geo = "ok" /\ sres[s].pub = "fail"
        /\ geo[scur[s].carId] = [lon |-> scur[s].lon, lat |-> scur[s].lat]

\* C6: a fatal error of one session closes that session only: the step that
\* closes it changes nothing of any other session and nothing of main().
C6_Closes(s) == spc[s] # "closed" /\ spc'[s] = "closed"

C6_StepIsolated ==
    \A s \in Sessions :
        C6_Closes(s) =>
            /\ serr'[s] \in {"Unauthenticated", "EOF", "transport", "sendError"}
            /\ \A t \in Sessions \ {s} :
                   /\ spc'[t] = spc[t] /\ serr'[t] = serr[t]
                   /\ scur'[t] = scur[t] /\ sres'[t] = sres[t] /\ scnt'[t] = scnt[t]
            /\ mainPc' = mainPc /\ redisOpen' = redisOpen /\ kafkaOpen' = kafkaOpen

\* C6: every step that closes a session leaves the other sessions and main() as
\* they were.
C6_FatalErrorIsSessionLocal == [][C6_StepIsolated]_vars

\* one session has ended with a transport error while the gateway still serves
\* and another session has a frame written, published and acknowledged
C6_Witness ==
    \E s, t \in Sessions :
        /\ s # t /\ spc[s] = "closed" /\ serr[s] \in {"transport", "sendError"}
        /\ mainPc = "serving" /\ redisOpen /\ kafkaOpen
        /\ spc[t] = "recv" /\ scnt[t].upserts = 1 /\ scnt[t].pubs = 1 /\ scnt[t].acks = 1

\* C7: once the shutdown signal has arrived no session accepts a new frame:
\* no frame received after the signal causes an upsert, a publish or an
\* acknowledgment.
C7_NoFrameAfterSignal ==
    \A s \in Sessions :
        sres[s].afterSignal =>
            /\ sres[s].geo = "none" /\ sres[s].hset = "none"
            /\ sres[s].pub = "none" /\ sres[s].ack = NoAck

\* the handler of session s has finished its latest frame: it is back at the
\* receive, or the stream ended there
Handled(s) ==
    /\ scnt[s].recvd >= 1
    /\ spc[s] = "recv" \/ (spc[s] = "closed" /\ serr[s] \in {"EOF", "transport"})

\* C14: the acknowledgments do not depend on the downstream outcomes: two
\* sessions that have handled the same frame as their k-th, whatever failed in
\* their index-store writes and publishes, have sent the same number of
\* acknowledgments and the same acknowledgment (agent id, status, message).
C14_AcksIgnoreOutcomes ==
    \A s, t \in Sessions :
        (/\ Handled(s) /\ Handled(t)
         /\ scur[s] = scur[t] /\ scnt[s].recvd = scnt[t].recvd) =>
            /\ scnt[s].acks = scnt[t].acks
            /\ sres[s].ack = sres[t].ack
            /\ sres[s].ack = BookingResponse(scur[s])

\* the same frame was handled on two sessions, with every downstream write
\* succeeding on one and the index-store write and the publish failing on the
\* other, and both were acknowledged
C14_Witness ==
    \E s, t \in Sessions :
        /\ Handled(s) /\ Handled(t) /\ scur[s] = scur[t]
        /\ sres[s].geo = "ok" /\ sres[s].hset = "ok" /\ sres[s].pub = "ok"
        /\ sres[t].geo = "fail" /\ sres[t].pub = "fail"
        /\ scnt[s].acks = 1 /\ scnt[t].acks = 1

\* the gateway can take a step without its peers: main() can go on with its
\* shutdown, or a handler is in the middle of the interceptor or of a frame
CanProceedAlone ==
    \/ ENABLED GracefulStopReturns
    \/ ENABLED CloseRedis
    \/ ENABLED CloseKafka
    \/ \E s \in Sessions : spc[s] = "auth" \/ Processing(s)

\* C16: after the shutdown signal the gateway closes every session, releases
\* its handles and exits whatever the peers do, also when a peer keeps its stream
\* open: until it has exited it always has a step of its own to take.
C16_ShutdownCompletes ==
    mainPc # "serving" =>
        \/ /\ mainPc = "exited" /\ ~redisOpen /\ ~kafkaOpen
           /\ \A s \in Sessions : spc[s] \in {"idle", "closed"}
        \/ CanProceedAlone

\* the bus messages published for the frame session s has in hand
PublishedForCurrent(s) ==
    {pi \in MessagesOf(s) : plog[pi[1]][pi[2]].seq = scnt[s].recvd}

\* C24: within the processing of one frame the index-store write attempt comes
\* first, the publish attempt second and the acknowledgment last: while the
\* index-store write is pending nothing is published or acknowledged for the
\* frame, the publish is attempted once the write attempt has returned, and the
\* acknowledgment is sent only after both attempts have returned.
C24_FixedStepOrder ==
    \A s \in Sessions :
        /\ spc[s] = "geoadd" =>
               /\ sres[s].geo = "none" /\ sres[s].hset = "none"
               /\ scnt[s].writes = scnt[s].recvd - 1
        /\ spc[s] = "hset" => sres[s].geo = "ok" /\ sres[s].hset = "none"
        /\ spc[s] \in {"geoadd", "hset", "emit"} =>
               /\ sres[s].pub = "none" /\ sres[s].ack = NoAck
               /\ scnt[s].emits = scnt[s].recvd - 1
               /\ PublishedForCurrent(s) = {}
        /\ spc[s] = "emit" =>
               /\ sres[s].geo # "none"
               /\ scnt[s].writes = scnt[s].recvd
               /\ sres[s].geo = "ok" => sres[s].hset # "none"
        /\ spc[s] = "send" =>
               /\ sres[s].geo # "none" /\ sres[s].pub # "none" /\ sres[s].ack = NoAck
               /\ scnt[s].writes = scnt[s].recvd /\ scnt[s].emits = scnt[s].recvd
        /\ sres[s].ack # NoAck =>
               /\ sres[s].geo # "none" /\ sres[s].pub # "none"
               /\ scnt[s].writes = scnt[s].recvd /\ scnt[s].emits = scnt[s].recvd
               /\ sres[s].pub = "ok" <=> PublishedForCurrent(s) # {}

\* a frame has been acknowledged after its index write went through only in
\* part (the location, not the metadata) and its event was published
C24_Witness ==
    \E s \in Sessions :
        /\ sres[s].ack = BookingResponse(scur[s])
        /\ sres[s].geo = "ok" /\ sres[s].hset = "fail" /\ sres[s].pub = "ok"
        /\ PublishedForCurrent(s) # {}

\* C25: a session processes its frames one after another in arrival order: the
\* next frame is read only when the frame before is acknowledged, the k-th
\* acknowledgment carries the agent id of the k-th frame, and the messages of
\* the session are published in the order of its receives (the message of frame
\* k while frame k is in hand, at most one per frame, in order within a partition).
C25_FramesInArrivalOrder ==
    \A s \in Sessions :
        /\ Processing(s) => scnt[s].acks = scnt[s].recvd - 1
        /\ spc[s] = "recv" =>
               /\ scnt[s].acks = scnt[s].recvd
               /\ scnt[s].recvd >= 1 => sres[s].ack.carId = scur[s].carId
        /\ \A pi \in MessagesOf(s) :
               /\ plog[pi[1]][pi[2]].seq >= 1
               /\ plog[pi[1]][pi[2]].seq <= scnt[s].recvd
               /\ spc[s] \in {"geoadd", "hset", "emit"} =>
                      plog[pi[1]][pi[2]].seq < scnt[s].recvd
               /\ plog[pi[1]][pi[2]].seq = scnt[s].recvd =>
                      plog[pi[1]][pi[2]].key = scur[s].carId
        /\ \A pi, pj \in MessagesOf(s) :
               /\ plog[pi[1]][pi[2]].seq = plog[pj[1]][pj[2]].seq => pi = pj
               /\ (pi[1] = pj[1] /\ pi[2] < pj[2]) =>
                      plog[pi[1]][pi[2]].seq < plog[pj[1]][pj[2]].seq

\* a session has received a frame of CAR-002 and then one of CAR-001, has
\* published both and has just acknowledged the second with its agent id
C25_Witness ==
    \E s \in Sessions :
        /\ spc[s] = "recv" /\ scnt[s].recvd = 2 /\ scnt[s].acks = 2
        /\ sres[s].ack.carId = "CAR-001"
        /\ \E pi, pj \in MessagesOf(s) :
               /\ plog[pi[1]][pi[2]].seq = 1 /\ plog[pi[1]][pi[2]].key = "CAR-002"
               /\ plog[pj[1]][pj[2]].seq = 2 /\ plog[pj[1]][pj[2]].key = "CAR-001"

\* how far a session has come: not connected, at the token check, streaming, closed
Stage(pc) ==
    IF pc = "idle" THEN 0
    ELSE IF pc = "auth" THEN 1
    ELSE IF pc = "closed" THEN 3
    ELSE 2

\* the metadata carries the shared secret as its first x-api-token
HoldsSecret(md) ==
    md.hasMd /\ Len(md.tokens) > 0 /\ md.tokens[1] = apiTokenValue

\* a session that streams, or has streamed, presented the secret itself
C26_StreamsOnOwnToken ==
    \A s \in Sessions :
        /\ (Stage(spc[s]) = 2 \/ scnt[s].recvd >= 1) => HoldsSecret(smd[s])
        /\ (spc[s] = "closed" /\ ~HoldsSecret(smd[s])) => serr[s] = "Unauthenticated"
        /\ spc[s] = "auth" => scnt[s] = ZeroCount /\ scur[s] = NoFrame

C26_StepForward ==
    \A s \in Sessions :
        /\ Stage(spc'[s]) >= Stage(spc[s])
        /\ spc'[s] = "auth" => spc[s] \in {"idle", "auth"}
        /\ (spc[s] = "idle" /\ spc'[s] # "idle") => spc'[s] = "auth"
        /\ (spc[s] = "auth" /\ spc'[s] # "auth") =>
               /\ spc'[s] = IF HoldsSecret(smd[s]) THEN "recv" ELSE "closed"
               /\ scnt'[s] = ZeroCount
        /\ spc[s] # "idle" => smd'[s] = smd[s]
        /\ spc[s] = "closed" =>
               /\ spc'[s] = "closed" /\ scur'[s] = scur[s]
               /\ scnt'[s].recvd = scnt[s].recvd

\* C26: a session only moves forward through unauthenticated, authenticated,
\* streaming, closed: its token is checked once, on the way into the stream and
\* before any frame, and no step takes it back to the check; a closed session
\* stays closed and receives no frame again; a later session streams only if it
\* presents the secret itself.
C26_ForwardOnlyLifecycle == []C26_StreamsOnOwnToken /\ [][C26_StepForward]_vars

\* a session streamed two frames and closed; the session that connected after
\* it, without the secret, was turned away at its own token check
C26_Witness ==
    \E s, t \in Sessions :
        /\ s < t
        /\ spc[s] = "closed" /\ scnt[s].recvd = 2 /\ scnt[s].acks = 2
        /\ spc[t] = "closed" /\ serr[t] = "Unauthenticated" /\ scnt[t] = ZeroCount

\* a session ended by a stream error is closed, at the step at which the error
\* was returned
C27_EndedWhereItFailed ==
    \A s \in Sessions :
        /\ serr[s] # "none" => spc[s] = "closed"
        /\ serr[s] \in {"EOF", "transport"} => scnt[s].acks = scnt[s].recvd
        /\ serr[s] = "sendError" =>
               /\ scnt[s].acks = scnt[s].recvd - 1 /\ sres[s].ack = NoAck
               /\ scnt[s].writes = scnt[s].recvd /\ scnt[s].emits = scnt[s].recvd
               /\ sres[s].pub = "ok" => PublishedForCurrent(s) # {}

C27_StepTerminates ==
    \A s \in Sessions :
        /\ serr'[s] # serr[s] =>
               /\ spc[s] \in {"auth", "recv", "send"} /\ spc'[s] = "closed"
               /\ spc[s] = "recv" => serr'[s] \in {"EOF", "transport"}
               /\ spc[s] = "send" => serr'[s] = "sendError"
               /\ geo' = geo /\ hash' = hash /\ plog' = plog
               /\ scur'[s] = scur[s] /\ sres'[s] = sres[s] /\ scnt'[s] = scnt[s]
        /\ serr[s] # "none" =>
               /\ spc'[s] = "closed" /\ serr'[s] = serr[s]
               /\ scur'[s] = scur[s] /\ sres'[s] = sres[s] /\ scnt'[s] = scnt[s]
               /\ MessagesOf(s)' = MessagesOf(s)

\* C27: an error of the stream receive (a clean end of stream included) or of
\* the acknowledgment send terminates the session: the step that returns it
\* closes the session and changes nothing else, and afterwards the session reads
\* no frame and makes no upsert, publish or acknowledgment; after a failed send
\* the index write and the publish of that frame are still in place.
C27_StreamErrorTerminates == []C27_EndedWhereItFailed /\ [][C27_StepTerminates]_vars

\* the acknowledgment of a frame failed and closed the session; the frame is in
\* the index store and its event is on the bus
C27_Witness ==
    \E s \in Sessions :
        /\ spc[s] = "closed" /\ serr[s] = "sendError"
        /\ sres[s].geo = "ok" /\ sres[s].hset = "ok" /\ sres[s].pub = "ok"
        /\ geo[scur[s].carId] = [lon |-> scur[s].lon, lat |-> scur[s].lat]
        /\ PublishedForCurrent(s) # {}

\* C28: the gateway never retries or duplicates a downstream write: for each
\* session the index-store write attempts and the publish attempts are each at
\* most the frames received, whatever failed, and no frame has two messages.
C28_NoRetryNoDuplicate ==
    \A s \in Sessions :
        /\ scnt[s].writes <= scnt[s].recvd
        /\ scnt[s].emits <= scnt[s].recvd
        /\ scnt[s].upserts <= scnt[s].writes
        /\ scnt[s].pubs <= scnt[s].emits
        /\ Cardinality(MessagesOf(s)) = scnt[s].pubs

\* a session has received two frames; the index-store write and the publish of
\* the first failed, each was attempted once, and the second went through
C28_Witness ==
    \E s \in Sessions :
        /\ scnt[s].recvd = 2 /\ scnt[s].writes = 2 /\ scnt[s].emits = 2
        /\ scnt[s].upserts = 1 /\ scnt[s].pubs = 1
        /\ sres[s].geo = "ok" /\ sres[s].pub = "ok"

\* C29: every failed index-store write of a frame is logged and is non-fatal,
\* whether the location-index update or the metadata-hash update fails: once
\* the write of a frame has failed the failure is in the log, and the session
\* is not closed by it.
C29_FailedWriteLogged ==
    \A s \in Sessions :
        (sres[s].geo = "fail" \/ sres[s].hset = "fail") =>
            /\ sres[s].redisLogged
            /\ spc[s] = "closed" => serr[s] \in {"EOF", "transport", "sendError"}

\* a session is inside writeToRedis (between its two commands) for agent c
WritingNow(c) ==
    \E s \in Sessions : spc[s] \in {"geoadd", "hset"} /\ scur[s].carId = c

\* C30: the positional record of an agent is one snapshot: whenever no write
\* for the agent is in progress, the index store holds nothing for it or its
\* location and its metadata hash are those of one frame.
C30_RecordIsOneSnapshot ==
    \A c \in Cars :
        ~WritingNow(c) =>
            \/ geo[c] = NoEntry /\ hash[c] = NoEntry
            \/ \E f \in FrameInputs :
                   /\ f.carId = c
                   /\ geo[c] = [lon |-> f.lon, lat |-> f.lat]
                   /\ hash[c] = [battery |-> f.battery, velocity |-> f.velocity,
                                 timestamp |-> f.timestamp]

\* C31: no session attempts an index-store write or a publish on a closed
\* handle: a handle is closed only at shutdown and only after every handler has
\* returned, so a session about to write or publish finds its handle open, and
\* every write and publish that succeeded did so before the handles were closed.
C31_NoUseAfterClose ==
    /\ \A s \in Sessions :
           /\ spc[s] \in {"geoadd", "hset"} => redisOpen
           /\ spc[s] = "emit" => kafkaOpen
    /\ (~redisOpen \/ ~kafkaOpen) =>
           /\ mainPc \in {"closeKafka", "exited"}
           /\ \A s \in Sessions : spc[s] \in {"idle", "closed"}
    /\ ~kafkaOpen => ~redisOpen

\* the gateway has shut down and closed both handles after a session that wrote
\* and published a frame had ended
C31_Witness ==
    /\ mainPc = "exited" /\ ~redisOpen /\ ~kafkaOpen
    /\ \E s \in Sessions :
           /\ spc[s] = "closed" /\ serr[s] = "EOF"
           /\ scnt[s].upserts = 1 /\ scnt[s].pubs = 1 /\ scnt[s].acks = 1

\* the token check of session s is over
Checked(s) == spc[s] \notin {"idle", "auth"}

\* the session was accepted: it got into the stream handler
Accepted(s) == Checked(s) /\ serr[s] # "Unauthenticated"

\* C32: token validation accepts a session if and only if its context has
\* metadata, the metadata has at least one x-api-token value and the first value
\* is the configured secret; without metadata, without a token, and with a first
\* token that is not the secret, the session ends with Unauthenticated.
C32_TokenValidation ==
    \A s \in Sessions :
        Checked(s) =>
            /\ Accepted(s) <=>
                   (smd[s].hasMd /\ Len(smd[s].tokens) >= 1
                    /\ smd[s].tokens[1] = apiTokenValue)
            /\ ~smd[s].hasMd => (spc[s] = "closed" /\ serr[s] = "Unauthenticated")
            /\ (smd[s].hasMd /\ Len(smd[s].tokens) = 0) =>
                   (spc[s] = "closed" /\ serr[s] = "Unauthenticated")
            /\ (smd[s].hasMd /\ Len(smd[s].tokens) >= 1
                /\ smd[s].tokens[1] # apiTokenValue) =>
                   (spc[s] = "closed" /\ serr[s] = "Unauthenticated")

\* a session whose second x-api-token value is the secret, but not its first,
\* was refused, and a session whose first value is the secret was accepted
C32_Witness ==
    \E s, t \in Sessions :
        /\ Len(smd[s].tokens) = 2 /\ smd[s].tokens[2] = apiTokenValue
        /\ spc[s] = "closed" /\ serr[s] = "Unauthenticated"
        /\ smd[t].tokens = <<apiTokenValue>> /\ Accepted(t) /\ spc[t] = "recv"

\* the step in which the GEOADD of session s's frame fails
GeoAddFails(s) == spc[s] = "geoadd" /\ sres'[s].geo = "fail"

C37_StepSkipsHSet ==
    \A s \in Sessions :
        /\ GeoAddFails(s) =>
               /\ geo' = geo /\ hash' = hash
               /\ spc'[s] = "emit"
               /\ sres'[s].hset = "none"
               /\ sres'[s].redisLogged
        /\ (sres[s].geo = "fail" /\ scnt'[s].recvd = scnt[s].recvd) =>
               /\ spc'[s] # "hset" /\ sres'[s].hset = "none"
               /\ \A c \in AgentIds :
                      (geo'[c] # geo[c] \/ hash'[c] # hash[c]) =>
                          \E u \in Sessions \ {s} : spc[u] \in {"geoadd", "hset"}

\* a frame whose GEOADD failed has had no HSET and its failure is reported
C37_FailedGeoAddReported ==
    \A s \in Sessions :
        sres[s].geo = "fail" =>
            /\ sres[s].hset = "none" /\ sres[s].redisLogged
            /\ spc[s] # "hset"
            /\ scnt[s].upserts < scnt[s].writes

\* C37: when the location-index update of a frame fails, the metadata-hash
\* update of that frame is not attempted: the failing step and every later step
\* of the session for that frame leave the index store as it was, and the
\* failure is reported to the session loop, which logs it.
C37_GeoAddFailureSkipsHSet == []C37_FailedGeoAddReported /\ [][C37_StepSkipsHSet]_vars

\* the GEOADD of a session's second frame of an agent failed: the frame was
\* published and acknowledged, and the index store still holds the first frame
C37_Witness ==
    \E s \in Sessions :
        /\ scnt[s].recvd = 2 /\ scnt[s].acks = 2 /\ scnt[s].upserts = 1
        /\ sres[s].geo = "fail" /\ sres[s].hset = "none" /\ sres[s].pub = "ok"
        /\ ~InBounds(scur[s])
        /\ geo[scur[s].carId] = [lon |-> BaseFrame(scur[s].carId).lon,
                                 lat |-> BaseFrame(scur[s].carId).lat]
        /\ hash[scur[s].carId] =
               [battery |-> BaseFrame(scur[s].carId).battery,
                velocity |-> BaseFrame(scur[s].carId).velocity,
                timestamp |-> BaseFrame(scur[s].carId).timestamp]

(***************************************************************************)
(* Properties of the enrichment worker (checked under SpecWorker).         *)
(***************************************************************************)
\* the step of partition p's worker in which its oracle call fails
OracleFails(p) == wpc[p] = "oracle" /\ wpc'[p] = "idle" /\ wpos'[p] = wpos[p]

\* C8: when the oracle call for an event fails or times out, that delivery of
\* the event adds no usage record, the worker is not terminated (it is back at
\* the top of its loop) and, unless the worker has been told to shut down, the
\* next event of the partition can be pulled.
C8_StepSkips ==
    \A p \in Partitions :
        OracleFails(p) =>
            /\ usage' = usage
            /\ wstatus'[p][wpos[p]] = "skipped"
            /\ wcommitted' = wcommitted
            /\ \A q \in Partitions \ {p} : wpc'[q] = wpc[q] /\ wpos'[q] = wpos[q]

C8_NextCanBePulled ==
    \A p \in Partitions :
        (wpc[p] = "idle" /\ wpos[p] >= 1 /\ wstatus[p][wpos[p]] = "skipped"
         /\ wpos[p] < Len(plog[p]) /\ ~wstop) => ENABLED WorkerConsume(p)

Finished(p, o) == wstatus[p][o] \in {"inserted", "insertFailed", "skipped"}

\* C9: the offset of an event is committed only after the insert attempt for
\* that event has completed: while an event is between pull and the end of its
\* insert attempt its offset is not committed, and only the commit step, taken
\* after the insert attempt, moves the committed offset.
C9_NotCommittedInFlight ==
    \A p \in Partitions :
        /\ wpc[p] \in {"oracle", "insert"} => wcommitted[p] < wpos[p]
        /\ \A o \in Offsets : o <= wcommitted[p] => Finished(p, o)

C9_StepCommits ==
    \A p \in Partitions :
        wcommitted'[p] # wcommitted[p] =>
            /\ wpc[p] = "commit"
            /\ wcommitted'[p] = wpos[p]
            /\ wstatus[p][wpos[p]] \in {"inserted", "insertFailed"}

\* C9: no offset is committed while its event's insert attempt is unfinished,
\* and only the commit step after the insert attempt moves the committed offset.
C9_CommitAfterInsertAttempt == []C9_NotCommittedInFlight /\ [][C9_StepCommits]_vars

\* an offset has been committed after a failed (logged) insert attempt
C9_Witness ==
    \E p \in Partitions :
        wcommitted[p] = 1 /\ wstatus[p][1] = "insertFailed" /\ usage = <<>>

\* C10: two deliveries of the same event, both enriched and inserted, leave two
\* usage records with distinct session identifiers, the same agent id and the
\* same usage quantity; an insert always adds a row (nothing is deduplicated).
C10_Records ==
    \A i, j \in 1..Len(usage) :
        (i # j /\ usage[i].event = usage[j].event) =>
            /\ usage[i].session_id # usage[j].session_id
            /\ usage[i].car_id = usage[j].car_id
            /\ usage[i].kwh_usage = usage[j].kwh_usage

C10_StepAppends ==
    \A p \in Partitions :
        (wpc[p] = "insert" /\ wstatus'[p][wpos[p]] = "inserted") =>
            /\ Len(usage') = Len(usage) + 1
            /\ \A i \in 1..Len(usage) : usage'[i] = usage[i]

\* C10: records of the same event have distinct session ids, the same agent id
\* and usage quantity, and every successful insert appends a row.
C10_RedeliveryDuplicates == []C10_Records /\ [][C10_StepAppends]_vars

\* one offset was delivered twice and has two records
C10_Witness ==
    \E i, j \in 1..Len(usage) :
        /\ i # j /\ usage[i].src = usage[j].src
        /\ usage[i].session_id # usage[j].session_id
        /\ usage[i].kwh_usage = usage[j].kwh_usage

\* the step of partition p's worker in which the insert of its record fails
InsertFails(p) == wpc[p] = "insert" /\ wstatus'[p][wpos[p]] = "insertFailed"

C11_StepNoRetry ==
    \A p \in Partitions :
        /\ InsertFails(p) =>
               /\ usage' = usage
               /\ wpc'[p] = "commit"
               /\ wpos'[p] = wpos[p]
        /\ (wpc[p] = "commit" /\ wstatus[p][wpos[p]] = "insertFailed" /\ wpc'[p] # "commit") =>
               /\ wpc'[p] = "idle"
               /\ usage' = usage
               /\ wcommitted'[p] = wpos[p] \/ wredeliv' = wredeliv + 1

C11_Continues ==
    \A p \in Partitions :
        /\ (wpc[p] = "commit" /\ wstatus[p][wpos[p]] = "insertFailed") =>
               ENABLED WorkerCommit(p)
        /\ (wpc[p] = "idle" /\ wpos[p] >= 1 /\ wstatus[p][wpos[p]] = "insertFailed"
            /\ wcommitted[p] = wpos[p] /\ wpos[p] < Len(plog[p]) /\ ~wstop) =>
               ENABLED WorkerConsume(p)

\* C11: a failed insert of a usage record is not retried and does not stop the
\* worker: the failing step adds no record and goes on to the commit, the commit
\* moves the offset past the event, and the next event can then be pulled.
C11_InsertFailureAdvances == []C11_Continues /\ [][C11_StepNoRetry]_vars

\* the insert of the first event failed, its offset was committed with no record
\* and no redelivery, and the next event of the partition has its record
C11_Witness ==
    \E p \in Partitions :
        /\ Len(plog[p]) = 2 /\ wredeliv = 0
        /\ wstatus[p][1] = "insertFailed" /\ wstatus[p][2] = "inserted"
        /\ wcommitted[p] = 2
        /\ Len(usage) = 1 /\ usage[1].src = <<p, 2>>

\* the answers the oracle gives
OracleAnswers == {handlePricing(h) : h \in QuoteHours}

C17_StepAfterShutdown ==
    /\ wstop =>
           \A p \in Partitions :
               /\ wpos'[p] = wpos[p]
               /\ wpc'[p] = "oracle" => wpc[p] = "oracle"
    /\ (~wstop /\ wstop') => (wpc' = wpc /\ wquote' = wquote /\ usage' = usage)
    /\ usage' # usage =>
           \E p \in Partitions :
               /\ wpc[p] = "insert"
               /\ wquote[p] \in OracleAnswers
               /\ usage' = Append(usage, usage'[Len(usage')])
               /\ usage'[Len(usage')].event = InHand(p)
               /\ usage'[Len(usage')].price_rate = wquote[p].price_per_kwh

C17_InFlightCallFinishes ==
    \A p \in Partitions :
        /\ (wstop /\ wpc[p] = "oracle") =>
               /\ \E h \in QuoteHours : ENABLED WorkerOracleOk(p, h)
               /\ ENABLED WorkerOracleFail(p, "timeout")
        /\ wstop => ~ENABLED WorkerConsume(p)
        /\ wpc[p] \in {"insert", "commit"} <=> wquote[p] # NoQuote

\* C17: once the worker is told to shut down no loop pulls a new event; the
\* shutdown leaves a call in flight as it is, and that call can still return or
\* time out; and a record is only ever inserted by a loop holding the oracle's
\* answer for the event in hand, at that price.
C17_ShutdownKeepsEnrichmentWhole ==
    []C17_InFlightCallFinishes /\ [][C17_StepAfterShutdown]_vars

\* the worker has been told to shut down: the event a loop has in hand has its
\* record, at the price of the oracle's answer, and the next event of the
\* partition stays unpulled
C17_Witness ==
    \E p \in Partitions :
        /\ wstop /\ wpc[p] = "commit" /\ wstatus[p][1] = "inserted"
        /\ wpos[p] = 1 /\ Len(plog[p]) = 2
        /\ Len(usage) = 1 /\ usage[1].price_rate = wquote[p].price_per_kwh

\* the worker of partition p has an event in hand
InFlight(p) == wpc[p] \in {"oracle", "insert", "commit"}

\* while an event is in hand every earlier event of the partition is finished,
\* and committed if it got as far as its insert attempt; without a redelivery
\* the records of a partition are in offset order
C18_OneAtATime ==
    /\ \A p \in Partitions :
           InFlight(p) =>
               \A o \in Offsets :
                   o < wpos[p] =>
                       /\ Finished(p, o)
                       /\ wstatus[p][o] \in {"inserted", "insertFailed"} => wcommitted[p] >= o
    /\ wredeliv = 0 =>
           \A i, j \in 1..Len(usage) :
               (i < j /\ usage[i].src[1] = usage[j].src[1]) => usage[i].src[2] < usage[j].src[2]

C18_StepInOrder ==
    \A p \in Partitions :
        /\ wpos'[p] > wpos[p] =>
               /\ ~InFlight(p) /\ wpc'[p] = "oracle"
               /\ wpos'[p] = wpos[p] + 1
        /\ (wpc[p] = "insert" /\ wpc'[p] = "commit" /\ usage' # usage) =>
               /\ usage' = Append(usage, usage'[Len(usage')])
               /\ usage'[Len(usage')].src = <<p, wpos[p]>>

\* C18: the worker of a partition has one event in hand at a time, pulled in
\* offset order: the next event is pulled only when the insert attempt and the
\* commit of the one before are over, and a record is inserted for the event in
\* hand, so the records of a partition are in the order of its deliveries.
C18_SequentialPerPartition == []C18_OneAtATime /\ [][C18_StepInOrder]_vars

\* both events of a partition were delivered once and have their records, in
\* offset order, and both offsets are committed
C18_Witness ==
    \E p \in Partitions :
        /\ wredeliv = 0 /\ Len(plog[p]) = 2 /\ wcommitted[p] = 2
        /\ Len(usage) = 2 /\ usage[1].src = <<p, 1>> /\ usage[2].src = <<p, 2>>

(***************************************************************************)
(* Properties of the steel thread (checked under SpecThread).              *)
(***************************************************************************)
\* a valid frame has just been received as the k-th frame of session s
Received(s, k) ==
    spc[s] = "geoadd" /\ scnt[s].recvd = k /\ ValidFrame(scur[s])

\* the k-th frame of session s has been acknowledged with its agent id
Acked(s, k) ==
    /\ spc[s] \in {"recv", "closed"}
    /\ scnt[s].recvd = k /\ scnt[s].acks = k
    /\ sres[s].ack = BookingResponse(scur[s])
    /\ sres[s].ack.carId = scur[s].carId

\* the index store locates f's agent at f's coordinates
Located(f) == geo[f.carId] = [lon |-> f.lon, lat |-> f.lat]

\* the k-th frame of session s is the current one and is in the index store
LocatedFor(s, k) == scnt[s].recvd = k /\ Located(scur[s])

\* the bus messages published for the k-th frame of session s
PublishedFor(s, k) ==
    {pi \in Partitions \X (1..MaxFrames) :
        /\ pi[2] <= Len(plog[pi[1]])
        /\ plog[pi[1]][pi[2]].sess = s /\ plog[pi[1]][pi[2]].seq = k}

\* the usage records derived from the bus message at pi
RecordsOf(pi) == {j \in 1..Len(usage) : usage[j].src = pi}

\* the telemetry event of the k-th frame of session s is on the bus and exactly
\* one usage record exists for it, with its agent id and a price the oracle returns
Recorded(s, k) ==
    \E pi \in PublishedFor(s, k) :
        /\ plog[pi[1]][pi[2]].value.event_type = "telemetry"
        /\ Cardinality(RecordsOf(pi)) = 1
        /\ \A j \in RecordsOf(pi) :
               /\ usage[j].car_id = plog[pi[1]][pi[2]].key
               /\ \E h \in QuoteHours :
                      usage[j].price_rate = handlePricing(h).price_per_kwh

C12_Delivers ==
    \A s \in Sessions, k \in 1..MaxFrames :
        /\ Received(s, k) ~> Acked(s, k)
        /\ Received(s, k) ~> LocatedFor(s, k)
        /\ Received(s, k) ~> Recorded(s, k)

\* the message published for a frame is the frame's event under its agent id; no
\* bus message ever has two usage records; and the record of the event a worker
\* loop has just inserted carries the price of the oracle's answer to the call
\* made for that event
C12_OneRecordAtOraclePrice ==
    /\ \A s \in Sessions :
           spc[s] = "send" =>
               \E pi \in PublishedFor(s, scnt[s].recvd) :
                   plog[pi[1]][pi[2]] = KafkaMessage(scur[s], s, scnt[s].recvd)
    /\ \A i, j \in 1..Len(usage) : usage[i].src = usage[j].src => i = j
    /\ \A p \in Partitions :
           wpc[p] = "commit" =>
               \E j \in 1..Len(usage) :
                   /\ usage[j].src = <<p, wpos[p]>>
                   /\ usage[j].price_rate = wquote[p].price_per_kwh

LocationOf(f) == [lon |-> f.lon, lat |-> f.lat]
MetadataOf(f) == [battery |-> f.battery, velocity |-> f.velocity, timestamp |-> f.timestamp]

\* a session is inside writeToRedis for agent c
Writing(c) ==
    \E s \in Sessions : spc[s] \in {"geoadd", "hset"} /\ scur[s].carId = c

\* the frames of agent c whose metadata the hash of c holds.  Every HSET
\* succeeds here and the frames of an agent differ in their timestamps, so this is
\* the frame of c whose write finished last.
LastProcessed(c) == {f \in ThreadFrames : f.carId = c /\ MetadataOf(f) = hash[c]}

\* C13: once the writes in progress for an agent are over, and every write having
\* succeeded, the positional record of the agent is the frame most recently
\* processed for it: its location and its metadata are those of that one frame.
C13_LastWriteWins ==
    \A c \in Cars :
        (~Writing(c) /\ hash[c] # NoEntry) =>
            \E f \in LastProcessed(c) : geo[c] = LocationOf(f)

\* frame f sits on a boundary the specification accepts
OnAcceptedBoundary(f) ==
    ValidFrame(f) /\ (f.battery = 0 \/ f.battery = 100000 \/ f.velocity = 0)

\* C15: a frame with battery exactly 0 or exactly 100, or with velocity 0, is
\* accepted (upserted and published by the time it is acknowledged), and a frame
\* with a negative velocity is rejected (never upserted, never published).
C15_FieldBoundaries ==
    \A s \in Sessions :
        /\ (spc[s] = "send" /\ OnAcceptedBoundary(scur[s])) =>
               sres[s].geo = "ok" /\ sres[s].hset = "ok" /\ sres[s].pub = "ok"
        /\ (scnt[s].recvd >= 1 /\ scur[s].velocity < 0) =>
               sres[s].geo # "ok" /\ sres[s].hset # "ok" /\ sres[s].pub # "ok"

\* a step that changes the time-series store appends one record, is the insert
\* step of a worker loop, and changes nothing of the gateway, the index store or
\* the bus; every step keeps the records the store holds
C19_StepAppendOnly ==
    /\ Len(usage') >= Len(usage)
    /\ \A i \in 1..Len(usage) : usage'[i] = usage[i]
    /\ usage' # usage =>
           /\ Len(usage') = Len(usage) + 1
           /\ \E p \in Partitions : wpc[p] = "insert" /\ wpc'[p] = "commit"
           /\ gatewayVars' = gatewayVars

\* C19: the time-series store is append-only and only the worker writes it: in
\* every step the records it holds stay as they are, a change is one record
\* appended by a worker's insert, and no step of the gateway changes it.
C19_AppendOnlySoleWriter == [][C19_StepAppendOnly]_vars

\* the store holds the record of a frame while the gateway, which has since
\* received another frame of the same agent, is about to write and publish it
C19_Witness ==
    \E s \in Sessions :
        /\ Len(usage) = 1 /\ FramesReceived = 2
        /\ spc[s] = "geoadd" /\ scur[s].carId = usage[1].car_id

\* session s takes a step of writeToRedis for agent c
WritesFor(s, c) ==
    /\ scur[s].carId = c
    /\ spc[s] \in {"geoadd", "hset"} /\ spc'[s] # spc[s]

C34_StepTouchesOwnRecord ==
    \A c \in AgentIds :
        (geo'[c] # geo[c] \/ hash'[c] # hash[c]) =>
            /\ \E s \in Sessions : WritesFor(s, c)
            /\ \A d \in AgentIds \ {c} : geo'[d] = geo[d] /\ hash'[d] = hash[d]

\* C34: processing a frame of agent A changes only A's positional record: a
\* step that changes the location or the metadata of an agent is a write of a
\* session whose frame in hand is that agent's, and it leaves the location and
\* metadata of every other agent as they were, however the sessions interleave.
C34_OnlyOwnRecordChanges == [][C34_StepTouchesOwnRecord]_vars

\* one session is between the two writes of a frame of CAR-002 while the record
\* of CAR-001, written by the other session, is whole
C34_Witness ==
    \E s, u \in Sessions :
        /\ s # u /\ spc[s] = "hset" /\ scur[s].carId = "CAR-002"
        /\ scur[u] = BaseFrame("CAR-001")
        /\ geo["CAR-001"] = LocationOf(BaseFrame("CAR-001"))
        /\ hash["CAR-001"] = MetadataOf(BaseFrame("CAR-001"))
        /\ hash["CAR-002"] = NoEntry

(***************************************************************************)
(* Properties of the live viewer (checked under SpecViewer).               *)
(***************************************************************************)
\* C20: the viewer prints its session statistics before it exits on a shutdown
\* signal, wherever in its loop the signal finds it: whenever it has exited,
\* printStats has run, with the number of events read.
C20_StatsBeforeExit ==
    vpc = "exited" => (vstats.printed /\ vstats.events = vcount)

\* C21: every line the viewer displays is classified by battery level as
\* documented: green above 50, yellow from 20 to 50 inclusive, red below 20, and
\* the critical-battery alert exactly when the battery is below 15.
C21_ClassifiesAsDocumented ==
    vshown # NoDisplay =>
        /\ vshown.icon = "green" <=> vshown.battery > 5000
        /\ vshown.icon = "yellow" <=> (vshown.battery >= 2000 /\ vshown.battery <= 5000)
        /\ vshown.icon = "red" <=> vshown.battery < 2000
        /\ vshown.critical <=> vshown.battery < 1500

\* the loop has ended only if the shutdown signal has cancelled its context, and
\* a viewer waiting in ReadMessage can take a message that is there
C35_EndsOnlyOnSignal ==
    /\ vpc = "exited" => vcancel
    /\ \A p \in Partitions :
           (vpc = "read" /\ coff[p] < Len(plog[p])) => ENABLED ViewerReadMessage(p)

C35_StepNonFatal ==
    /\ (vpc = "read" /\ vpc' \notin {"read", "parse"} /\ ~vcancel) =>
           /\ vpc' = "select"
           /\ vcount' = vcount /\ coff' = coff /\ vshown' = vshown
    /\ (vpc = "parse" /\ vpc' # "parse") =>
           /\ vpc' = IF Unmarshals(vmsg.value) THEN "display" ELSE "select"
           /\ coff' = coff /\ vcount' = vcount
    /\ (vpc = "display" /\ vpc' # "display") =>
           /\ vpc' = "select"
           /\ vshown'.eventNum = vcount
    /\ (vpc # "exited" /\ vpc' = "exited") => (vcancel /\ vpc \in {"select", "read"})

\* C35: in the viewer a bus read error (while not shutting down) and a message
\* that fails to parse are non-fatal: the loop goes round again with nothing
\* lost, and a message read afterwards is displayed; the loop ends only after
\* the shutdown signal, and after the signal it eventually ends.
C35_ViewerErrorsNonFatal ==
    /\ []C35_EndsOnlyOnSignal
    /\ [][C35_StepNonFatal]_vars
    /\ (vcancel ~> vpc = "exited")

\* the first message of a partition did not parse; the second was read after it
\* and displayed as event 2, and the viewer, not signalled, is still running
C35_Witness ==
    \E p \in Partitions :
        /\ Len(plog[p]) = 2 /\ plog[p][1].value = NotJson /\ coff[p] = 2
        /\ vshown # NoDisplay /\ vshown.eventNum = 2
        /\ ~vcancel /\ vpc = "select"

(***************************************************************************)
(* Properties of the pricing oracle (checked under SpecOracle).            *)
(***************************************************************************)
\* C22: every response of the oracle is for an hour 0..23 and reports exactly
\* one energy source: Solar for hours 8 to 18, Wind for hours 19 to 22, Grid for
\* hours 23 and 0 to 7.
C22_EnergySourceByHour ==
    oresp # NoResponse =>
        /\ oresp.hour \in 0..23
        /\ oresp.energy_source \in {"Solar", "Wind", "Grid"}
        /\ oresp.energy_source = "Solar" <=> oresp.hour \in 8..18
        /\ oresp.energy_source = "Wind" <=> oresp.hour \in 19..22
        /\ oresp.energy_source = "Grid" <=> oresp.hour \in {23} \cup 0..7

\* the oracle answered a request of the hour 18 with Solar, and the clock has
\* since passed into the hours of Wind
C22_Witness ==
    /\ oresp # NoResponse
    /\ oresp.hour = 18 /\ oresp.energy_source = "Solar"
    /\ ohour = 19

\* C23: over the 24 hours of a day the price the oracle returns is highest at
\* hour 18 and lowest at hour 2: no response carries a price above the one of
\* hour 18 or below the one of hour 2.
C23_PeakAt18LowAt2 ==
    oresp # NoResponse =>
        /\ oresp.price_per_kwh <= handlePricing(18).price_per_kwh
        /\ oresp.price_per_kwh >= handlePricing(2).price_per_kwh

(***************************************************************************)
(* Properties of the publishing path (checked under SpecEmit).             *)
(***************************************************************************)
\* the frame's event as a consumer of the topic reads it from message m: the
\* value is a JSON object with the agent id and capture timestamp of frame f and
\* the event type "telemetry"
CarriesFrame(m, f) ==
    /\ Unmarshals(m.value)
    /\ m.value.car_id = f.carId
    /\ m.value.timestamp = f.timestamp
    /\ m.value.event_type = "telemetry"

\* C33: the event published for a frame has the frame's agent id as its message
\* key, carries the frame's agent id and capture timestamp unchanged and has
\* event type "telemetry", and a successfully published frame has exactly one
\* such event on the bus (a frame whose publish failed has none).
C33_EventMirrorsFrame ==
    \A s \in Sessions :
        /\ sres[s].pub = "ok" =>
               /\ Cardinality(PublishedForCurrent(s)) = 1
               /\ \A pi \in PublishedForCurrent(s) :
                      /\ plog[pi[1]][pi[2]].key = scur[s].carId
                      /\ CarriesFrame(plog[pi[1]][pi[2]], scur[s])
        /\ sres[s].pub = "fail" => PublishedForCurrent(s) = {}
        /\ Cardinality(MessagesOf(s)) = scnt[s].pubs

\* C36: in every pricing response the load tier agrees with the returned price
\* (in cents): High exactly when the price is above 0.35, Medium exactly when it
\* is above 0.25 and at most 0.35, Low otherwise, in every hour of the day.
C36_TierAgreesWithPrice ==
    oresp # NoResponse =>
        /\ oresp.grid_load = "High" <=> oresp.price_per_kwh > 35
        /\ oresp.grid_load = "Medium" <=>
               (oresp.price_per_kwh > 25 /\ oresp.price_per_kwh <= 35)
        /\ oresp.grid_load = "Low" <=> oresp.price_per_kwh <= 25

====
